---- MODULE Spec2Model ----
(***************************************************************************)
(* A model of gbus/saga/glue.go: the Glue that ties the messages arriving  *)
(* from the Bus to saga instances.  Concurrent callers run SagaHandler,    *)
(* TimeoutSaga and RegisterSaga; every collaborator call (Store,           *)
(* TimeoutManager, business handler) is one step, so the interleavings the *)
(* Go scheduler allows are the interleavings of the model.                 *)
(***************************************************************************)
EXTENDS Integers, Sequences, FiniteSets, TLC

\* ---------------------------------------------------------------- bounds
NumCallers == 2      \* goroutines calling into the Glue
MaxIds == 2          \* saga instance ids that newInstance may hand out

Callers == 1..NumCallers
Ids == 1..MaxIds
NoCaller == 0        \* the mutex is free
NoID == 0            \* the empty string "" of SagaCorrelationID / Instance.ID

\* ------------------------------------------------------- inputs (sagas)
\* The saga types the application may register.  reflect.TypeOf(saga) fixes
\* what saga.StartedBy() and saga.RegisterAllHandlers(def) produce.
SagaTypes == {"T1", "T2"}

\* fqnsFromMessages(saga.StartedBy()): the schema names that start the saga
fqnsFromMessages(sagaType) ==
    IF sagaType = "T1" THEN {"m1"} ELSE {"m2"}

\* def.getHandledMessages(): the names the saga registered handlers for,
\* in registration order.  m1 starts T1 and is merely handled by T2; m3 is
\* handled by both and starts neither.
getHandledMessages(sagaType) ==
    IF sagaType = "T1" THEN <<"m1", "m3">> ELSE <<"m1", "m2", "m3">>

IndexNames == {"m1", "m2", "m3"}
\* the schema names as the messages carry them in PayloadFQN
PayloadNames == {"m1", "m2", "M3"}

\* strings.ToLower on the names the model uses
ToLower(s) == IF s = "M3" THEN "m3" ELSE s

\* ----------------------------------------------------- inputs (messages)
CMD == "cmd"
EVT == "evt"
Variants == {1, 2}
SvcOf(v) == IF v = 1 THEN "svcA" ELSE "svcB"
SagaIDOf(v) == IF v = 1 THEN "sagaA" ELSE "sagaB"
RPCIDOf(v) == IF v = 1 THEN "rpcA" ELSE "rpcB"
MsgIDOf(v) == IF v = 1 THEN "msgA" ELSE "msgB"
\* invocation.Tx(), the transaction the Bus opened for the delivery
TxOf(v) == IF v = 1 THEN "txA" ELSE "txB"
\* the transaction the TimeoutManager hands to TimeoutSaga
TimeoutTx == "txT"

BusMessage(n, c, s, v) ==
    [PayloadFQN |-> n, SagaCorrelationID |-> c, Semantics |-> s,
     SagaID |-> SagaIDOf(v), RPCID |-> RPCIDOf(v), ID |-> MsgIDOf(v)]

NoMessage ==
    [PayloadFQN |-> "", SagaCorrelationID |-> NoID, Semantics |-> "",
     SagaID |-> "", RPCID |-> "", ID |-> ""]

\* ------------------------------------------------------------ instances
\* *Instance(nil)
NilInstance ==
    [ID |-> NoID, sagaType |-> "", StartedBy |-> "", StartedBySaga |-> "",
     StartedByRPCID |-> "", StartedByMessageID |-> "",
     complete |-> FALSE, timeoutRequested |-> FALSE]

\* ------------------------------------------------------------ errors
Nil == "nil"
ErrInstanceNotFound == "ErrInstanceNotFound"
ErrAlreadyRegistered == "saga already registered"
ErrCanNotResolve == "can not resolve saga instance for message"
Panic == "panic: nil pointer dereference"
\* the error a failing collaborator call returns, one per operation
ErrOf(op) == "error from " \o op

VARIABLES
    sagaDefs,       \* Glue.sagaDefs: the registered Defs, in order
    msgToDefMap,    \* Glue.msgToDefMap: message name -> Defs
    lock,           \* Glue.lock: the caller holding the mutex, or NoCaller
    sagaStore,      \* the Store: id -> persisted instance, or NilInstance
    timeouts,       \* the TimeoutManager: ids with a registered timeout
    nextID,         \* the next id def.newInstance() hands out
    deletedIDs,     \* history: ids of the instances DeleteSaga has deleted
    caller,         \* per goroutine: the call in progress and its locals
    alreadyRegistred, \* Glue.alreadyRegistred: the schema names marked registered
    busCalls,       \* the Bus: the HandleMessage/HandleEvent calls it received
    registration    \* the last registerMessage/registerEvent call and its result

vars == <<sagaDefs, msgToDefMap, lock, sagaStore, timeouts, nextID,
          deletedIDs, caller, alreadyRegistred, busCalls, registration>>

\* what SagaHandler, TimeoutSaga and RegisterSaga work on, and what
\* registerMessage and registerEvent work on
glueVars == <<sagaDefs, msgToDefMap, lock, sagaStore, timeouts, nextID,
              deletedIDs, caller>>
registrationVars == <<alreadyRegistred, busCalls, registration>>

\* no registerMessage/registerEvent call was made yet
NoRegistration == [op |-> "none", name |-> "", ret |-> "none", asked |-> FALSE]

Idle ==
    [pc |-> "idle", op |-> "none", message |-> NoMessage, svc |-> "", tx |-> "",
     defs |-> <<>>, di |-> 0, instance |-> NilInstance, instances |-> <<>>,
     ii |-> 0, sagaID |-> NoID, sagaType |-> "",
     ret |-> "none", calls |-> <<>>, created |-> 0, fetched |-> <<>>]

\* NewGlue
Init ==
    /\ sagaDefs = <<>>
    /\ msgToDefMap = [n \in IndexNames |-> <<>>]
    /\ lock = NoCaller
    /\ sagaStore = [i \in Ids |-> NilInstance]
    /\ timeouts = {}
    /\ nextID = 1
    /\ deletedIDs = {}
    /\ caller = [p \in Callers |-> Idle]
    /\ alreadyRegistred = {}
    /\ busCalls = <<>>
    /\ registration = NoRegistration

\* one collaborator call in a caller's log: the operation, the instance id
\* it was given, the error it returned, for a business handler whether it
\* left the instance complete, and the transaction the call was made in
Call(op, id, err, complete, tx) ==
    [op |-> op, id |-> id, err |-> err, complete |-> complete, tx |-> tx]
Logged(c, op, id, err) == Append(c.calls, Call(op, id, err, FALSE, c.tx))
Invoked(c, op, id, complete) == Append(c.calls, Call(op, id, Nil, complete, c.tx))

\* a return that hands the caller nil whatever the call came to
Returned_SwallowsError(c, r) == [c EXCEPT !.pc = "done", !.ret = Nil]

\* a call returns: the caller sees ret
Returned(c, r) == [c EXCEPT !.pc = "done", !.ret = r]

\* The caller of a finished call takes its result before any goroutine takes
\* its next step.  Return changes nothing but that caller's locals, so this
\* removes no behaviour of the Glue.
noneDone == \A q \in Callers : caller[q].pc # "done"

\* a deferred Unlock() that never runs
Unlock_Never(c, c2) == lock

\* SagaHandler's deferred imsm.lock.Unlock() (line 142) runs as the call
\* returns; TimeoutSaga and RegisterSaga never touch the mutex
Unlock(c, c2) ==
    IF c.op = "SagaHandler" /\ c2.pc = "done" THEN NoCaller ELSE lock

\* -------------------------------------------------------- RegisterSaga
\* a registry that never finds the saga type among the Defs
isSagaAlreadyRegistered_NeverFound(sagaType) == FALSE

\* Glue.isSagaAlreadyRegistered
isSagaAlreadyRegistered(sagaType) ==
    \E i \in 1..Len(sagaDefs) : sagaDefs[i] = sagaType

\* Glue.addMsgNameToDef: the index after def is appended under msgName
addMsgNameToDef(index, msgName, def) ==
    [index EXCEPT ![msgName] = Append(index[msgName], def)]

\* lines 79-81: the index after def is appended under each of msgNames
RECURSIVE indexDef(_, _, _)
indexDef(index, msgNames, def) ==
    IF msgNames = <<>> THEN index
    ELSE indexDef(addMsgNameToDef(index, Head(msgNames), def), Tail(msgNames), def)

\* lines 56-88: RegisterSaga(saga), as one step.  It takes no lock, so it
\* may run between any two steps of a SagaHandler or TimeoutSaga call.
RegisterSaga(p) ==
    /\ caller[p].pc = "idle"
    /\ noneDone
    /\ \E t \in SagaTypes :
        LET c == [Idle EXCEPT !.op = "RegisterSaga", !.sagaType = t] IN
        IF isSagaAlreadyRegistered(t)
        THEN /\ caller' = [caller EXCEPT ![p] = Returned(c, ErrAlreadyRegistered)]
             /\ UNCHANGED <<sagaDefs, msgToDefMap>>
        ELSE /\ sagaDefs' = Append(sagaDefs, t)
             /\ msgToDefMap' = indexDef(msgToDefMap, getHandledMessages(t), t)
             /\ caller' = [caller EXCEPT ![p] =
                    Returned([c EXCEPT !.calls = Logged(c, "RegisterSagaType", NoID, Nil)], Nil)]
    /\ UNCHANGED <<lock, sagaStore, timeouts, nextID, deletedIDs, registrationVars>>

\* ----------------------------------------------------------- the Store
\* what the Store keeps of an instance
Persisted(instance) ==
    [NilInstance EXCEPT !.ID = instance.ID, !.sagaType = instance.sagaType]

\* ids of the stored instances of a saga type
IdsOfType(sagaType) ==
    {i \in Ids : sagaStore[i] # NilInstance /\ sagaStore[i].sagaType = sagaType}

\* the orders in which GetSagasByType may return a set of instances
Orderings(S) ==
    {o \in [1..Cardinality(S) -> S] : \A i, j \in 1..Cardinality(S) : o[i] = o[j] => i = j}

\* the ways the Store reports that GetSagaByID found nothing: the
\* ErrInstanceNotFound of line 29, or the nil instance of lines 171-183
AbsenceReports == {ErrInstanceNotFound, Nil}

\* -------------------------------------------------- SagaHandler, the loop
\* Def.shouldStartNewSaga: the message name is one of the Def's startedBy
shouldStartNewSaga(def, message) ==
    message.PayloadFQN \in fqnsFromMessages(def)

\* a loop body that looks at the SagaCorrelationID before the start check
dispatchBranch_CorrelationFirst(def, message) ==
    IF message.SagaCorrelationID # NoID THEN "correlated"
    ELSE IF shouldStartNewSaga(def, message) THEN "start"
    ELSE IF message.Semantics = CMD THEN "cmd"
    ELSE "fanout"

\* a loop body without the command check of lines 193-195
dispatchBranch_NoCommandCheck(def, message) ==
    IF shouldStartNewSaga(def, message) THEN "start"
    ELSE IF message.SagaCorrelationID # NoID THEN "correlated"
    ELSE "fanout"

\* the branch of SagaHandler's loop body taken for a Def (lines 159-196)
dispatchBranch(def, message) ==
    IF shouldStartNewSaga(def, message) THEN "start"
    ELSE IF message.SagaCorrelationID # NoID THEN "correlated"
    ELSE IF message.Semantics = CMD THEN "cmd"
    ELSE "fanout"

\* a handleNewSaga that takes StartedBySaga and StartedByRPCID from each
\* other's header
newInstance_SwappedHeaders(def, svc, message, id) ==
    [ID |-> id, sagaType |-> def, StartedBy |-> svc,
     StartedBySaga |-> message.RPCID, StartedByRPCID |-> message.SagaID,
     StartedByMessageID |-> message.ID,
     complete |-> FALSE, timeoutRequested |-> FALSE]

\* handleNewSaga lines 105-109: the new instance and its causation fields
newInstance(def, svc, message, id) ==
    [ID |-> id, sagaType |-> def, StartedBy |-> svc,
     StartedBySaga |-> message.SagaID, StartedByRPCID |-> message.RPCID,
     StartedByMessageID |-> message.ID,
     complete |-> FALSE, timeoutRequested |-> FALSE]

\* a mutex whose Lock() always goes through
mutexFree_NeverHeld == TRUE

\* sync.Mutex: Lock() goes through when nobody holds the mutex
mutexFree == lock = NoCaller

\* lines 147-163, 193-198, 220: the turn of the loop over defs for c.di, up
\* to the next collaborator call or the return
loopTurn(c) ==
    IF c.di > Len(c.defs) THEN Returned(c, Nil)
    ELSE LET branch == dispatchBranch(c.defs[c.di], c.message) IN
         IF branch = "start" THEN [c EXCEPT !.pc = "new_invoke"]
         ELSE IF branch = "correlated" THEN [c EXCEPT !.pc = "get_by_id"]
         ELSE IF branch = "cmd" THEN Returned(c, ErrCanNotResolve)
         ELSE [c EXCEPT !.pc = "get_by_type"]

\* a fan-out loop that walks the fetched instances from the last to the first
fanOutNext_Backwards(c) ==
    IF c.ii > Len(c.instances)
    THEN loopTurn([c EXCEPT !.di = c.di + 1, !.instance = NilInstance,
                            !.instances = <<>>, !.ii = 0])
    ELSE [c EXCEPT !.pc = "fan_invoke",
                   !.instance = c.instances[Len(c.instances) + 1 - c.ii]]

\* the next instance of the fan-out loop (line 206), or the next Def (147)
fanOutNext(c) ==
    IF c.ii > Len(c.instances)
    THEN loopTurn([c EXCEPT !.di = c.di + 1, !.instance = NilInstance,
                            !.instances = <<>>, !.ii = 0])
    ELSE [c EXCEPT !.pc = "fan_invoke", !.instance = c.instances[c.ii]]

\* a correlated path that goes on to the next Def after reconciling
afterReconcile_NextDef(c, e) ==
    IF c.op = "TimeoutSaga" THEN Returned(c, e)
    ELSE IF e # Nil THEN Returned(c, e)
    ELSE IF c.message.SagaCorrelationID # NoID
    THEN loopTurn([c EXCEPT !.di = c.di + 1, !.instance = NilInstance])
    ELSE fanOutNext([c EXCEPT !.ii = c.ii + 1])

\* a fan-out loop that goes on to the next instance whatever
\* completeOrUpdateSaga returned
afterReconcile_IgnoresError(c, e) ==
    IF c.op = "TimeoutSaga" THEN Returned(c, e)
    ELSE IF c.message.SagaCorrelationID # NoID THEN Returned(c, e)
    ELSE fanOutNext([c EXCEPT !.ii = c.ii + 1])

\* where a call goes with the result e of completeOrUpdateSaga:
\* TimeoutSaga returns it (314), the correlated path returns it (191), the
\* fan-out loop returns an error and otherwise moves on (212-216)
afterReconcile(c, e) ==
    IF c.op = "TimeoutSaga" THEN Returned(c, e)
    ELSE IF c.message.SagaCorrelationID # NoID THEN Returned(c, e)
    ELSE IF e # Nil THEN Returned(c, e)
    ELSE fanOutNext([c EXCEPT !.ii = c.ii + 1])

\* --------------------------------------------------- completeOrUpdateSaga
\* a reconciliation that deletes what is not complete and updates what is
completeOrUpdateSaga_Inverted(instance) ==
    IF instance.complete THEN "cou_update" ELSE "cou_delete"

\* line 257: where reconciliation goes for an instance
completeOrUpdateSaga(instance) ==
    IF instance.complete THEN "cou_delete" ELSE "cou_update"

\* line 260-263: Store.DeleteSaga
DeleteSaga(p) ==
    LET c == caller[p]
        id == c.instance.ID IN
    /\ c.pc = "cou_delete"
    /\ noneDone
    /\ \E e \in {Nil, ErrOf("DeleteSaga")} :
        LET c1 == [c EXCEPT !.calls = Logged(c, "DeleteSaga", id, e)]
            c2 == IF e # Nil THEN afterReconcile(c1, e) ELSE [c1 EXCEPT !.pc = "cou_clear"] IN
        /\ sagaStore' = IF e = Nil THEN [sagaStore EXCEPT ![id] = NilInstance] ELSE sagaStore
        /\ deletedIDs' = IF e = Nil THEN deletedIDs \cup {id} ELSE deletedIDs
        /\ caller' = [caller EXCEPT ![p] = c2]
        /\ lock' = Unlock(c, c2)
    /\ UNCHANGED <<sagaDefs, msgToDefMap, timeouts, nextID, registrationVars>>

\* a ClearTimeout that leaves the timeout registered
ClearTimeout_KeepsTimeout(p) ==
    LET c == caller[p]
        id == c.instance.ID IN
    /\ c.pc = "cou_clear"
    /\ noneDone
    /\ \E e \in {Nil, ErrOf("ClearTimeout")} :
        LET c2 == afterReconcile([c EXCEPT !.calls = Logged(c, "ClearTimeout", id, e)], e) IN
        /\ timeouts' = timeouts
        /\ caller' = [caller EXCEPT ![p] = c2]
        /\ lock' = Unlock(c, c2)
    /\ UNCHANGED <<sagaDefs, msgToDefMap, sagaStore, nextID, deletedIDs, registrationVars>>

\* line 265: TimeoutManager.ClearTimeout
ClearTimeout(p) ==
    LET c == caller[p]
        id == c.instance.ID IN
    /\ c.pc = "cou_clear"
    /\ noneDone
    /\ \E e \in {Nil, ErrOf("ClearTimeout")} :
        LET c2 == afterReconcile([c EXCEPT !.calls = Logged(c, "ClearTimeout", id, e)], e) IN
        /\ timeouts' = IF e = Nil THEN timeouts \ {id} ELSE timeouts
        /\ caller' = [caller EXCEPT ![p] = c2]
        /\ lock' = Unlock(c, c2)
    /\ UNCHANGED <<sagaDefs, msgToDefMap, sagaStore, nextID, deletedIDs, registrationVars>>

\* line 268: Store.UpdateSaga (an update of a row that is gone changes nothing)
UpdateSaga(p) ==
    LET c == caller[p]
        id == c.instance.ID IN
    /\ c.pc = "cou_update"
    /\ noneDone
    /\ \E e \in {Nil, ErrOf("UpdateSaga")} :
        LET c2 == afterReconcile([c EXCEPT !.calls = Logged(c, "UpdateSaga", id, e)], e) IN
        /\ sagaStore' = IF e = Nil /\ sagaStore[id] # NilInstance
                        THEN [sagaStore EXCEPT ![id] = Persisted(c.instance)]
                        ELSE sagaStore
        /\ caller' = [caller EXCEPT ![p] = c2]
        /\ lock' = Unlock(c, c2)
    /\ UNCHANGED <<sagaDefs, msgToDefMap, timeouts, nextID, deletedIDs, registrationVars>>

\* ------------------------------------------------------------ SagaHandler
\* the messages the Bus delivers and the service each invocation names
Invocations ==
    {[message |-> BusMessage(n, cid, s, v), svc |-> SvcOf(v), tx |-> TxOf(v)] :
        n \in PayloadNames, cid \in {NoID} \cup Ids, s \in {CMD, EVT}, v \in Variants}

\* the loop over defs may reach handleNewSaga for the message: a Def is
\* started by it and the Defs before that one fan the message out
mayCreate(defs, message) ==
    \E i \in 1..Len(defs) :
        /\ dispatchBranch(defs[i], message) = "start"
        /\ \A j \in 1..(i - 1) : dispatchBranch(defs[j], message) = "fanout"

\* the Bus calls SagaHandler(invocation, message) on a goroutine
SagaHandlerCall(p) ==
    /\ caller[p].pc = "idle"
    /\ noneDone
    /\ caller' = [caller EXCEPT ![p] = [Idle EXCEPT !.pc = "sh_lock", !.op = "SagaHandler"]]
    /\ UNCHANGED <<sagaDefs, msgToDefMap, lock, sagaStore, timeouts, nextID, deletedIDs, registrationVars>>

\* lines 141-163: imsm.lock.Lock(), the lookup of the Defs and the first
\* turn of the loop.  The arguments are not looked at before line 143, so
\* they are drawn here.  The Bus delivers the messages the Glue subscribed
\* for (registerMessage, registerEvent): those with a Def indexed under their
\* name.  newInstance hands out ids up to MaxIds.
Lock(p) ==
    LET c == caller[p] IN
    /\ c.pc = "sh_lock"
    /\ noneDone
    /\ mutexFree
    /\ \E inv \in Invocations :
        LET defs == msgToDefMap[ToLower(inv.message.PayloadFQN)]
            c2 == loopTurn([c EXCEPT !.message = inv.message, !.svc = inv.svc, !.tx = inv.tx,
                                     !.di = 1,
                                     !.defs = defs]) IN
        /\ defs # <<>>
        /\ mayCreate(defs, inv.message) => nextID <= MaxIds
        /\ caller' = [caller EXCEPT ![p] = c2]
        /\ lock' = IF c2.pc = "done" THEN NoCaller ELSE p
    /\ UNCHANGED <<sagaDefs, msgToDefMap, sagaStore, timeouts, nextID, deletedIDs, registrationVars>>

\* what the business handler may do to the instance it is invoked on
\* (Glue.invokeSagaInstance, lines 223-253): fail, or succeed and leave the
\* saga complete or not
InvokeErr == ErrOf("invoke")

\* handleNewSaga lines 105-120: create the instance and invoke it; a complete
\* one is dropped, the others go on to SaveNewSaga
HandleNewSagaInvoke(p) ==
    LET c0 == caller[p]
        id == nextID
        c == [c0 EXCEPT !.instance = newInstance(c0.defs[c0.di], c0.svc, c0.message, id),
                        !.created = c0.created + 1] IN
    /\ c0.pc = "new_invoke"
    /\ noneDone
    /\ nextID' = nextID + 1
    /\ \/ LET c2 == Returned([c EXCEPT !.calls = Logged(c, "invoke", id, InvokeErr)], InvokeErr) IN
          /\ caller' = [caller EXCEPT ![p] = c2]
          /\ lock' = Unlock(c, c2)
       \/ LET c1 == [c EXCEPT !.calls = Invoked(c, "invoke", id, TRUE), !.instance.complete = TRUE]
              c2 == Returned(c1, Nil) IN
          /\ caller' = [caller EXCEPT ![p] = c2]
          /\ lock' = Unlock(c, c2)
       \/ \E rt \in BOOLEAN :
          /\ caller' = [caller EXCEPT ![p] =
                [c EXCEPT !.calls = Invoked(c, "invoke", id, FALSE), !.pc = "new_save",
                          !.instance.timeoutRequested = rt]]
          /\ UNCHANGED lock
    /\ UNCHANGED <<sagaDefs, msgToDefMap, sagaStore, timeouts, deletedIDs, registrationVars>>

\* an instance that never asks for a timeout
requestsTimeout_Never(instance) == FALSE

\* Instance.requestsTimeout (line 128): the business handler asked for one
requestsTimeout(instance) == instance.timeoutRequested

\* handleNewSaga lines 123-128, 135: Store.SaveNewSaga
SaveNewSaga(p) ==
    LET c == caller[p]
        id == c.instance.ID IN
    /\ c.pc = "new_save"
    /\ noneDone
    /\ \E e \in {Nil, ErrOf("SaveNewSaga")} :
        LET c1 == [c EXCEPT !.calls = Logged(c, "SaveNewSaga", id, e)]
            c2 == IF e # Nil THEN Returned(c1, e)
                  ELSE IF requestsTimeout(c.instance) THEN [c1 EXCEPT !.pc = "new_timeout"]
                  ELSE Returned(c1, Nil) IN
        /\ sagaStore' = IF e = Nil THEN [sagaStore EXCEPT ![id] = Persisted(c.instance)]
                        ELSE sagaStore
        /\ caller' = [caller EXCEPT ![p] = c2]
        /\ lock' = Unlock(c, c2)
    /\ UNCHANGED <<sagaDefs, msgToDefMap, timeouts, nextID, deletedIDs, registrationVars>>

\* handleNewSaga lines 130-135: TimeoutManager.RegisterTimeout
RegisterTimeout(p) ==
    LET c == caller[p]
        id == c.instance.ID IN
    /\ c.pc = "new_timeout"
    /\ noneDone
    /\ \E e \in {Nil, ErrOf("RegisterTimeout")} :
        LET c2 == Returned([c EXCEPT !.calls = Logged(c, "RegisterTimeout", id, e)], e) IN
        /\ timeouts' = IF e = Nil THEN timeouts \cup {id} ELSE timeouts
        /\ caller' = [caller EXCEPT ![p] = c2]
        /\ lock' = Unlock(c, c2)
    /\ UNCHANGED <<sagaDefs, msgToDefMap, sagaStore, nextID, deletedIDs, registrationVars>>

\* lines 164-185: Store.GetSagaByID for the message's SagaCorrelationID
SagaHandlerGetByID(p) ==
    LET c == caller[p]
        id == c.message.SagaCorrelationID IN
    /\ c.pc = "get_by_id"
    /\ noneDone
    /\ \/ \* the Store fails: getErr != nil
          LET e == ErrOf("GetSagaByID")
              c2 == Returned([c EXCEPT !.calls = Logged(c, "GetSagaByID", id, e)], e) IN
          /\ caller' = [caller EXCEPT ![p] = c2]
          /\ lock' = Unlock(c, c2)
       \/ \* the instance is stored
          /\ sagaStore[id] # NilInstance
          /\ caller' = [caller EXCEPT ![p] =
                [c EXCEPT !.calls = Logged(c, "GetSagaByID", id, Nil),
                          !.instance = sagaStore[id], !.pc = "corr_invoke"]]
          /\ UNCHANGED lock
       \/ \* no such instance: getErr != nil returns it, a nil instance returns nil
          /\ sagaStore[id] = NilInstance
          /\ \E report \in AbsenceReports :
              LET c2 == Returned([c EXCEPT !.calls = Logged(c, "GetSagaByID", id, report)],
                                 report) IN
              /\ caller' = [caller EXCEPT ![p] = c2]
              /\ lock' = Unlock(c, c2)
    /\ UNCHANGED <<sagaDefs, msgToDefMap, sagaStore, timeouts, nextID, deletedIDs, registrationVars>>

\* lines 186-191 and 207-212: invoke a stored instance, then reconcile it
SagaHandlerInvoke(p) ==
    LET c == caller[p]
        id == c.instance.ID IN
    /\ c.pc \in {"corr_invoke", "fan_invoke"}
    /\ noneDone
    /\ \/ LET c2 == Returned([c EXCEPT !.calls = Logged(c, "invoke", id, InvokeErr)], InvokeErr) IN
          /\ caller' = [caller EXCEPT ![p] = c2]
          /\ lock' = Unlock(c, c2)
       \/ \E done \in BOOLEAN :
          LET inst == [c.instance EXCEPT !.complete = done] IN
          /\ caller' = [caller EXCEPT ![p] =
                [c EXCEPT !.calls = Invoked(c, "invoke", id, done), !.instance = inst,
                          !.pc = completeOrUpdateSaga(inst)]]
          /\ UNCHANGED lock
    /\ UNCHANGED <<sagaDefs, msgToDefMap, sagaStore, timeouts, nextID, deletedIDs, registrationVars>>

\* lines 199-206: Store.GetSagasByType for the Def's saga type
SagaHandlerGetByType(p) ==
    LET c == caller[p]
        def == c.defs[c.di] IN
    /\ c.pc = "get_by_type"
    /\ noneDone
    /\ \/ LET e == ErrOf("GetSagasByType")
              c2 == Returned([c EXCEPT !.calls = Logged(c, "GetSagasByType", NoID, e)], e) IN
          /\ caller' = [caller EXCEPT ![p] = c2]
          /\ lock' = Unlock(c, c2)
       \/ \E order \in Orderings(IdsOfType(def)) :
          LET c2 == fanOutNext([c EXCEPT !.calls = Logged(c, "GetSagasByType", NoID, Nil),
                                     !.instances = [i \in DOMAIN order |-> sagaStore[order[i]]],
                                     !.fetched = c.fetched \o order,
                                     !.ii = 1]) IN
          /\ caller' = [caller EXCEPT ![p] = c2]
          /\ lock' = Unlock(c, c2)
    /\ UNCHANGED <<sagaDefs, msgToDefMap, sagaStore, timeouts, nextID, deletedIDs, registrationVars>>

\* ------------------------------------------------------------ TimeoutSaga
\* lines 290-304: the TimeoutManager fires TimeoutSaga(tx, sagaID), which
\* calls Store.GetSagaByID; only ErrInstanceNotFound is taken for an absent
\* saga, a nil saga with a nil error is dereferenced (304, 306)
TimeoutSaga(p) ==
    /\ caller[p].pc = "idle"
    /\ noneDone
    /\ \E id \in Ids :
       LET c == [Idle EXCEPT !.op = "TimeoutSaga", !.sagaID = id, !.tx = TimeoutTx] IN
       \/ LET e == ErrOf("GetSagaByID") IN
          caller' = [caller EXCEPT ![p] =
                Returned([c EXCEPT !.calls = Logged(c, "GetSagaByID", id, e)], e)]
       \/ /\ sagaStore[id] # NilInstance
          /\ caller' = [caller EXCEPT ![p] =
                [c EXCEPT !.calls = Logged(c, "GetSagaByID", id, Nil),
                          !.instance = sagaStore[id], !.pc = "ts_timeout"]]
       \/ /\ sagaStore[id] = NilInstance
          /\ \E report \in AbsenceReports :
              caller' = [caller EXCEPT ![p] =
                Returned([c EXCEPT !.calls = Logged(c, "GetSagaByID", id, report)],
                         IF report = ErrInstanceNotFound THEN Nil ELSE Panic)]
    /\ UNCHANGED <<sagaDefs, msgToDefMap, lock, sagaStore, timeouts, nextID, deletedIDs, registrationVars>>

\* lines 306-314: the saga's timeout handler, then reconciliation
TimeoutSagaTimeout(p) ==
    LET c == caller[p]
        id == c.instance.ID IN
    /\ c.pc = "ts_timeout"
    /\ noneDone
    /\ \/ LET e == ErrOf("timeout") IN
          caller' = [caller EXCEPT ![p] =
                Returned([c EXCEPT !.calls = Logged(c, "timeout", id, e)], e)]
       \/ \E done \in BOOLEAN :
          LET inst == [c.instance EXCEPT !.complete = done] IN
          caller' = [caller EXCEPT ![p] =
                [c EXCEPT !.calls = Invoked(c, "timeout", id, done), !.instance = inst,
                          !.pc = completeOrUpdateSaga(inst)]]
    /\ UNCHANGED <<sagaDefs, msgToDefMap, lock, sagaStore, timeouts, nextID, deletedIDs, registrationVars>>

\* the caller takes the result and is free for the next call
Return(p) ==
    /\ caller[p].pc = "done"
    /\ caller' = [caller EXCEPT ![p] = Idle]
    /\ UNCHANGED <<sagaDefs, msgToDefMap, lock, sagaStore, timeouts, nextID, deletedIDs, registrationVars>>

Next ==
    \E p \in Callers :
        \/ RegisterSaga(p)
        \/ SagaHandlerCall(p)
        \/ Lock(p)
        \/ HandleNewSagaInvoke(p)
        \/ SaveNewSaga(p)
        \/ RegisterTimeout(p)
        \/ SagaHandlerGetByID(p)
        \/ SagaHandlerGetByType(p)
        \/ SagaHandlerInvoke(p)
        \/ TimeoutSaga(p)
        \/ TimeoutSagaTimeout(p)
        \/ DeleteSaga(p)
        \/ ClearTimeout(p)
        \/ UpdateSaga(p)
        \/ Return(p)

Spec == Init /\ [][Next]_vars

\* a step inside a call: a collaborator or handler call that returns
Step(p) ==
    \/ HandleNewSagaInvoke(p) \/ SaveNewSaga(p) \/ RegisterTimeout(p)
    \/ SagaHandlerGetByID(p) \/ SagaHandlerGetByType(p) \/ SagaHandlerInvoke(p)
    \/ TimeoutSagaTimeout(p)
    \/ DeleteSaga(p) \/ ClearTimeout(p) \/ UpdateSaga(p)

\* The behaviours of Next in which at most LiveMaxIds instances are created:
\* a start message is delivered while fewer than that were.
LiveMaxIds == 1
LiveNext ==
    /\ Next
    /\ \A p \in Callers :
          (caller'[p].pc = "new_invoke" /\ caller[p].pc # "new_invoke") => nextID <= LiveMaxIds

\* Fair scheduling: every collaborator and handler call terminates, a
\* finished call returns to its caller, and a goroutine waiting in Lock()
\* gets the mutex if it is free again and again (sync.Mutex hands the mutex
\* to a starving waiter).  The steps inside a call are strongly fair
\* because noneDone holds them back while a finished call awaits its Return.
Fairness ==
    \A p \in Callers :
        /\ SF_vars(Lock(p))
        /\ SF_vars(Step(p))
        /\ WF_vars(Return(p))
FairSpec == Init /\ [][LiveNext]_vars /\ Fairness

\* The behaviours of Next in which every SagaHandler and TimeoutSaga call
\* returns success: no collaborator or handler fails and no message is
\* refused.  (A call that returns an error is rolled back by the owner of
\* its transaction, which the Glue does not see.)  The TimeoutManager fires
\* TimeoutSaga for the ids it holds a timeout for, or late, for the id of a
\* saga that is gone.
SuccessNext ==
    /\ Next
    /\ \A p \in Callers :
          /\ (caller'[p].pc = "done" /\ caller'[p].op \in {"SagaHandler", "TimeoutSaga"})
                => caller'[p].ret = Nil
          /\ (caller[p].pc = "idle" /\ caller'[p].op = "TimeoutSaga")
                => caller'[p].sagaID \in timeouts \cup deletedIDs
SuccessSpec == Init /\ [][SuccessNext]_vars

\* ------------------------------------------- registerMessage, registerEvent
\* the schema names Defs ask the Glue to subscribe for (message.SchemaName())
SchemaNames == PayloadNames

\* what the Bus may answer to HandleMessage or HandleEvent
BusAnswers(op) == {Nil, ErrOf(op)}

\* a registration that forgets to mark the name in alreadyRegistred
registerWith_NeverMarks(op, busOp, name) ==
    /\ IF name \in alreadyRegistred
       THEN /\ registration' = [op |-> op, name |-> name, ret |-> Nil, asked |-> FALSE]
            /\ UNCHANGED <<alreadyRegistred, busCalls>>
       ELSE \E answer \in BusAnswers(busOp) :
            /\ UNCHANGED alreadyRegistred
            /\ busCalls' = Append(busCalls, [op |-> busOp, name |-> name, err |-> answer])
            /\ registration' = [op |-> op, name |-> name, ret |-> answer, asked |-> TRUE]
    /\ UNCHANGED glueVars

\* lines 271-278 and 280-287: the body shared by registerMessage (which
\* calls bus.HandleMessage) and registerEvent (which calls bus.HandleEvent).
\* A name found in alreadyRegistred returns nil at once; otherwise the name
\* is marked before the Bus is called, and the Bus's answer is returned.
registerWith(op, busOp, name) ==
    /\ IF name \in alreadyRegistred
       THEN /\ registration' = [op |-> op, name |-> name, ret |-> Nil, asked |-> FALSE]
            /\ UNCHANGED <<alreadyRegistred, busCalls>>
       ELSE \E answer \in BusAnswers(busOp) :
            /\ alreadyRegistred' = alreadyRegistred \cup {name}
            /\ busCalls' = Append(busCalls, [op |-> busOp, name |-> name, err |-> answer])
            /\ registration' = [op |-> op, name |-> name, ret |-> answer, asked |-> TRUE]
    /\ UNCHANGED glueVars

\* lines 271-278: Glue.registerMessage(message)
registerMessage ==
    \E name \in SchemaNames : registerWith("registerMessage", "HandleMessage", name)

\* lines 280-287: Glue.registerEvent(exchange, topic, event)
registerEvent ==
    \E name \in SchemaNames : registerWith("registerEvent", "HandleEvent", name)

NextRegister == registerMessage \/ registerEvent

\* any sequence of registerMessage and registerEvent calls on a new Glue
SpecRegister == Init /\ [][NextRegister]_vars

\* ======================================================================
\* The claims
\* ======================================================================
Mutations == {"SaveNewSaga", "UpdateSaga", "DeleteSaga", "RegisterTimeout", "ClearTimeout"}
OpsOf(c) == {c.calls[i].op : i \in DOMAIN c.calls}
SagaHandlerDone(c) == c.op = "SagaHandler" /\ c.pc = "done"
TimeoutSagaDone(c) == c.op = "TimeoutSaga" /\ c.pc = "done"
\* no business logic ran and nothing was written
Untouched(c) == "invoke" \notin OpsOf(c) /\ "timeout" \notin OpsOf(c) /\ OpsOf(c) \cap Mutations = {}
\* the call asked GetSagaByID first and the Store reported that nothing is there
ReportedAbsent(c) ==
    /\ Len(c.calls) >= 1
    /\ c.calls[1].op = "GetSagaByID"
    /\ c.calls[1].err \in AbsenceReports
    /\ c.instance = NilInstance
\* the message is a start message of the i-th Def of the call
StartsDef(c, i) == c.message.PayloadFQN \in fqnsFromMessages(c.defs[i])

\* C1: a message whose non-empty SagaCorrelationID matches no stored instance
\* (and that does not start the Def) makes SagaHandler return nil with no
\* business logic invoked and nothing saved, updated, deleted, registered or
\* cleared, whichever way the Store reports the absence.
C1_AbsentInstanceIsSuccess ==
    \A p \in Callers :
        LET c == caller[p] IN
        (SagaHandlerDone(c) /\ c.message.SagaCorrelationID # NoID /\ ReportedAbsent(c))
            => (c.ret = Nil /\ Untouched(c))

\* C2: once DeleteSaga has deleted a complete instance, UpdateSaga is never
\* called for that id again, over every interleaving of SagaHandler and
\* TimeoutSaga calls.
C2_NoUpdateAfterDelete ==
    [][\A p \in Callers :
          (caller[p].pc = "cou_update" /\ caller'[p] # caller[p])
              => caller[p].instance.ID \notin deletedIDs]_vars

\* C3: at most one SagaHandler call is between Lock() and its return, that
\* call holds the lock, and while it is there no other SagaHandler call
\* takes a step.
InDispatch(c) == c.op = "SagaHandler" /\ c.pc \notin {"sh_lock", "done"}
C3_OneDispatchAtATime ==
    /\ [](\A p, q \in Callers :
            InDispatch(caller[p]) => (lock = p /\ (InDispatch(caller[q]) => p = q)))
    /\ [][\A p, q \in Callers :
            (p # q /\ InDispatch(caller[p]) /\ caller[q].op = "SagaHandler"
                   /\ caller[q].pc = "sh_lock")
                => caller'[q] = caller[q]]_vars
\* a dispatch is between fetch and reconcile while another call waits for the lock
C3_Witness ==
    \E p, q \in Callers :
        /\ caller[p].pc = "cou_update" /\ caller[p].op = "SagaHandler"
        /\ caller[q].pc = "sh_lock"

\* C4 as stated: a CMD message with an empty SagaCorrelationID always makes
\* SagaHandler return an error, with no business logic and no mutation.
C4_CommandWithoutCorrelationFails ==
    \A p \in Callers :
        LET c == caller[p] IN
        (SagaHandlerDone(c) /\ c.message.Semantics = CMD /\ c.message.SagaCorrelationID = NoID)
            => (c.ret # Nil /\ Untouched(c))
\* C4 amended: a CMD message with an empty SagaCorrelationID that is not a
\* start message of the first Def indexed under its name makes SagaHandler
\* return the cannot-resolve error, with no business logic, no instance
\* created and no Store or TimeoutManager call, whatever Defs follow.
C4_UnroutableCommandFails ==
    \A p \in Callers :
        LET c == caller[p] IN
        (SagaHandlerDone(c) /\ c.message.Semantics = CMD /\ c.message.SagaCorrelationID = NoID
            /\ Len(c.defs) >= 1 /\ ~StartsDef(c, 1))
            => (c.ret = ErrCanNotResolve /\ c.calls = <<>> /\ c.created = 0)
\* the command is refused although a later Def is started by it
C4_Witness ==
    \E p \in Callers :
        LET c == caller[p] IN
        /\ SagaHandlerDone(c) /\ c.message.Semantics = CMD /\ c.message.SagaCorrelationID = NoID
        /\ Len(c.defs) = 2 /\ ~StartsDef(c, 1) /\ StartsDef(c, 2)
        /\ c.ret = ErrCanNotResolve

\* what handleNewSaga owes the instance a call created
CreatedAsClaimed(c) ==
    /\ c.instance.ID # NoID
    /\ c.instance.StartedBy = c.svc
    /\ c.instance.StartedBySaga = c.message.SagaID
    /\ c.instance.StartedByRPCID = c.message.RPCID
    /\ c.instance.StartedByMessageID = c.message.ID
    /\ Cardinality({i \in DOMAIN c.calls : c.calls[i].op = "SaveNewSaga"}) <= 1
    /\ (\E i \in DOMAIN c.calls : c.calls[i].op = "SaveNewSaga" /\ c.calls[i].id = c.instance.ID)
         <=> (\E i \in DOMAIN c.calls :
                 /\ c.calls[i].op = "invoke" /\ c.calls[i].id = c.instance.ID
                 /\ c.calls[i].err = Nil /\ ~c.calls[i].complete)

\* C5 as stated: for every message in a Def's startedBy set SagaHandler
\* creates exactly one instance, stamped with the invoking service and the
\* message's SagaID, RPCID and ID, and saved iff its first invocation
\* succeeded and left it not complete.
C5_StartMessageCreatesInstance ==
    \A p \in Callers :
        LET c == caller[p] IN
        (SagaHandlerDone(c) /\ \E i \in DOMAIN c.defs : StartsDef(c, i))
            => (c.created = 1 /\ CreatedAsClaimed(c))
\* the loop gets to the i-th Def: the Defs before it fan the message out
FansOutBefore(c, i) ==
    \A j \in 1..(i - 1) :
        /\ ~StartsDef(c, j)
        /\ c.message.SagaCorrelationID = NoID
        /\ c.message.Semantics # CMD
\* C5 amended: SagaHandler creates exactly one instance, stamped and saved as
\* stated, for every message in the startedBy set of a Def its loop reaches:
\* the first Def indexed under the name, or a later one when the Defs before
\* it fanned the message out without an error.  No call creates more than one.
C5_ReachedStartCreatesInstance ==
    \A p \in Callers :
        LET c == caller[p] IN
        SagaHandlerDone(c) =>
            /\ c.created <= 1
            /\ (c.created = 1 => CreatedAsClaimed(c))
            /\ \A i \in DOMAIN c.defs :
                 (StartsDef(c, i) /\ FansOutBefore(c, i))
                    => (c.created = 1 \/ (i > 1 /\ c.ret # Nil /\ c.created = 0))
\* an instance is created at the second Def, after the first fanned out, and saved
C5_Witness ==
    \E p \in Callers :
        LET c == caller[p] IN
        /\ SagaHandlerDone(c) /\ c.created = 1 /\ c.di = 2
        /\ c.instance.StartedBy = "svcB"
        /\ "SaveNewSaga" \in OpsOf(c) /\ c.ret = Nil

\* the positions in the log of the invocations of fetched (not created) instances
FanOutInvokes(c) ==
    {i \in DOMAIN c.calls :
        c.calls[i].op = "invoke" /\ ~(c.created = 1 /\ c.calls[i].id = c.instance.ID)}
\* the k-th invoked instance is the k-th instance GetSagasByType returned
InFetchedOrder(c) ==
    /\ Cardinality(FanOutInvokes(c)) <= Len(c.fetched)
    /\ \A i \in FanOutInvokes(c) :
          c.calls[i].id = c.fetched[Cardinality({j \in FanOutInvokes(c) : j <= i})]
\* an instance whose invocation succeeded is reconciled before anything else
ReconciledNext(c) ==
    \A i \in FanOutInvokes(c) :
        c.calls[i].err = Nil =>
            /\ i < Len(c.calls)
            /\ c.calls[i + 1].op \in {"UpdateSaga", "DeleteSaga"}
            /\ c.calls[i + 1].id = c.calls[i].id
\* a failed invocation ends the call with its error: nothing is called for
\* that instance or the ones after it
FailedInvokeEnds(c) ==
    \A i \in FanOutInvokes(c) :
        c.calls[i].err # Nil => (i = Len(c.calls) /\ c.ret = c.calls[i].err)
\* every stored instance of the type of a Def indexed under the name was
\* invoked by the call (the instance the call itself created aside)
AllStoredInvoked(c) ==
    \A i \in DOMAIN c.defs : \A id \in IdsOfType(c.defs[i]) :
        \/ c.created = 1 /\ id = c.instance.ID
        \/ \E k \in FanOutInvokes(c) : c.calls[k].id = id
\* every instance of every Def indexed under the name was fetched and invoked
AllFannedOut(c) ==
    /\ Cardinality({i \in DOMAIN c.calls : c.calls[i].op = "GetSagasByType"}) = Len(c.defs)
    /\ Cardinality(FanOutInvokes(c)) = Len(c.fetched)
EventWithoutCorrelation(c) ==
    SagaHandlerDone(c) /\ c.message.Semantics = EVT /\ c.message.SagaCorrelationID = NoID

\* C6 as stated: for an event with an empty SagaCorrelationID SagaHandler
\* invokes and reconciles every stored instance of each matching Def's type,
\* in the order GetSagasByType returned them; a failed invocation stops it,
\* with that error returned and nothing called for the instances from the
\* failed one on.  (Read in the claim's favour: only the calls that return
\* nil are held to have reached every instance.)
C6_EventFansOutToAll ==
    \A p \in Callers :
        LET c == caller[p] IN
        EventWithoutCorrelation(c) =>
            /\ InFetchedOrder(c) /\ ReconciledNext(c) /\ FailedInvokeEnds(c)
            /\ c.ret = Nil => AllStoredInvoked(c)
\* C6 amended: for an event with an empty SagaCorrelationID SagaHandler goes
\* through the Defs indexed under the name in order, and for each one invokes
\* and reconciles the instances GetSagasByType returned, one at a time in
\* that order, until the list of Defs is done, a Def started by the message
\* is reached (the creation path then ends the call) or a call fails.  A call
\* that returns nil with no Def started by the message has invoked and
\* reconciled every instance of every Def; a failed invocation of instance N
\* is returned after 1..N-1 were reconciled, with no Store call for N..M;
\* any other error returned is that of the last collaborator call made.
C6_EventFansOutInOrder ==
    \A p \in Callers :
        LET c == caller[p] IN
        EventWithoutCorrelation(c) =>
            /\ InFetchedOrder(c) /\ ReconciledNext(c) /\ FailedInvokeEnds(c)
            /\ (c.ret = Nil /\ \A i \in DOMAIN c.defs : ~StartsDef(c, i))
                  => (AllFannedOut(c) /\ AllStoredInvoked(c))
            /\ c.ret # Nil => (c.calls # <<>> /\ c.calls[Len(c.calls)].err = c.ret)
\* the second of two fetched instances fails after the first was reconciled
C6_Witness ==
    \E p \in Callers :
        LET c == caller[p] IN
        /\ EventWithoutCorrelation(c) /\ Len(c.fetched) = 2 /\ c.fetched[1] = 2
        /\ Len(c.calls) = 4
        /\ c.calls[2].op = "invoke" /\ c.calls[2].id = 2 /\ c.calls[2].err = Nil
        /\ c.calls[3].op = "UpdateSaga" /\ c.calls[3].id = 2
        /\ c.calls[4].op = "invoke" /\ c.calls[4].id = 1 /\ c.calls[4].err = InvokeErr
        /\ c.ret = InvokeErr

\* the positions in the log where completeOrUpdateSaga is entered: after a
\* handler that succeeded on a stored instance
Reconciled(c) ==
    {i \in DOMAIN c.calls :
        /\ c.calls[i].op \in {"invoke", "timeout"} /\ c.calls[i].err = Nil
        /\ ~(c.created = 1 /\ c.calls[i].id = c.instance.ID)}
IsCall(c, i, op, id) == i <= Len(c.calls) /\ c.calls[i].op = op /\ c.calls[i].id = id
\* completeOrUpdateSaga ran to its end in every finished call
Finished(c) == c.pc = "done" /\ c.op \in {"SagaHandler", "TimeoutSaga"}

C8_TimeoutSagaAbsentOrReconciled ==
    \A p \in Callers :
        LET c == caller[p] IN
        TimeoutSagaDone(c) =>
            /\ ReportedAbsent(c) => (c.ret = Nil /\ Untouched(c))
            /\ (c.calls[1].err = Nil /\ c.instance # NilInstance /\ c.ret = Nil) =>
                  /\ Cardinality({i \in DOMAIN c.calls : c.calls[i].op = "timeout"}) = 1
                  /\ IsCall(c, 2, "timeout", c.sagaID)
                  /\ IF c.calls[2].complete
                     THEN IsCall(c, 3, "DeleteSaga", c.sagaID) /\ IsCall(c, 4, "ClearTimeout", c.sagaID)
                     ELSE IsCall(c, 3, "UpdateSaga", c.sagaID)

\* C9: RegisterSaga for a saga type that is already registered returns an
\* error and leaves sagaDefs and msgToDefMap as they were; nothing is asked
\* of the Store and no Def or index entry is added.
C9_DuplicateRegistrationRejected ==
    [][\A p \in Callers :
          (/\ caller[p].pc = "idle"
           /\ caller'[p].op = "RegisterSaga"
           /\ \E i \in DOMAIN sagaDefs : sagaDefs[i] = caller'[p].sagaType)
              => /\ caller'[p].ret = ErrAlreadyRegistered
                 /\ caller'[p].calls = <<>>
                 /\ UNCHANGED <<sagaDefs, msgToDefMap>>]_vars
\* a second registration of a registered type was refused and both types
\* are still registered once
C9_Witness ==
    \E p \in Callers :
        /\ caller[p].op = "RegisterSaga" /\ caller[p].pc = "done"
        /\ caller[p].ret = ErrAlreadyRegistered
        /\ sagaDefs = <<"T2", "T1">>

\* C10: while a SagaHandler call holds the dispatch lock, sagaDefs and
\* msgToDefMap are not changed by a RegisterSaga call.
C10_NoRegistrationDuringDispatch ==
    [][lock # NoCaller => UNCHANGED <<sagaDefs, msgToDefMap>>]_vars


\* the positions in the log of the business invocations that failed
FailedInvokes(c) ==
    {i \in DOMAIN c.calls : c.calls[i].op = "invoke" /\ c.calls[i].err # Nil}

\* C11: a business invocation that fails is the last thing its SagaHandler
\* call does: its error is what the call returns, and neither SaveNewSaga
\* nor RegisterTimeout (creation path) nor UpdateSaga, DeleteSaga or
\* ClearTimeout (completeOrUpdateSaga, correlated and fan-out paths) is
\* called for the instance it was made on.
C11_FailedInvocationPersistsNothing ==
    \A p \in Callers :
        LET c == caller[p] IN
        SagaHandlerDone(c) =>
            \A i \in FailedInvokes(c) :
                /\ i = Len(c.calls)
                /\ c.ret = c.calls[i].err
                /\ \A j \in DOMAIN c.calls :
                      c.calls[j].id = c.calls[i].id => c.calls[j].op \notin Mutations
\* the invocation of a fetched, correlated instance failed
C11_Witness ==
    \E p \in Callers :
        LET c == caller[p] IN
        /\ SagaHandlerDone(c) /\ c.message.SagaCorrelationID # NoID
        /\ Len(c.calls) = 2
        /\ c.calls[1].op = "GetSagaByID" /\ c.calls[1].err = Nil
        /\ c.calls[2].op = "invoke" /\ c.calls[2].err = InvokeErr
        /\ c.ret = InvokeErr /\ sagaStore[c.calls[2].id] # NilInstance


\* C12: when the first Def indexed under the message name is started by the
\* message, SagaHandler creates one instance whether or not the message
\* carries a SagaCorrelationID: GetSagaByID and GetSagasByType are not
\* called, every call made is on the new instance, the result is that of
\* the creation path, and no further Def is processed.  No SagaHandler call
\* creates more than one instance.
C12_StartAtFirstDefCreatesAndReturns ==
    \A p \in Callers :
        LET c == caller[p] IN
        SagaHandlerDone(c) =>
            /\ c.created <= 1
            /\ (Len(c.defs) >= 1 /\ StartsDef(c, 1)) =>
                  /\ c.created = 1 /\ c.di = 1
                  /\ OpsOf(c) \subseteq {"invoke", "SaveNewSaga", "RegisterTimeout"}
                  /\ \A i \in DOMAIN c.calls : c.calls[i].id = c.instance.ID
                  /\ c.calls # <<>> /\ c.calls[1].op = "invoke"
                  /\ c.ret = c.calls[Len(c.calls)].err
\* a start message that carries a SagaCorrelationID created and saved an
\* instance of the first of two Defs
C12_Witness ==
    \E p \in Callers :
        LET c == caller[p] IN
        /\ SagaHandlerDone(c) /\ Len(c.defs) = 2 /\ StartsDef(c, 1)
        /\ c.message.SagaCorrelationID # NoID
        /\ c.created = 1 /\ "SaveNewSaga" \in OpsOf(c) /\ c.ret = Nil


\* the positions in the log of the first invocation of an instance the call
\* created, when that invocation succeeded
FirstInvocations(c) ==
    {i \in DOMAIN c.calls :
        /\ c.created = 1 /\ c.calls[i].op = "invoke"
        /\ c.calls[i].id = c.instance.ID /\ c.calls[i].err = Nil}

BusCallsFor(name) == {i \in DOMAIN busCalls : busCalls[i].name = name}
Accepted(name) == \E i \in BusCallsFor(name) : busCalls[i].err = Nil

\* C14: over any sequence of registerMessage and registerEvent calls the Bus
\* receives at most one HandleMessage or HandleEvent call per schema name,
\* and a call for a name already in alreadyRegistred returns nil without
\* calling the Bus.
C14_OneSubscriptionPerName ==
    /\ [](\A name \in SchemaNames : Cardinality(BusCallsFor(name)) <= 1)
    /\ [][registration'.name \in alreadyRegistred
            => (registration'.ret = Nil /\ ~registration'.asked /\ busCalls' = busCalls)]_vars
\* registerEvent for a name registerMessage had subscribed returned nil and
\* the Bus was not called again
C14_Witness ==
    /\ registration.op = "registerEvent" /\ registration.ret = Nil /\ ~registration.asked
    /\ \E i \in BusCallsFor(registration.name) :
          busCalls[i].op = "HandleMessage" /\ busCalls[i].err = Nil
    /\ Len(busCalls) = 2


\* the one error the code turns into success: TimeoutSaga's GetSagaByID
\* answering ErrInstanceNotFound (the correlated path's benign absence is a
\* nil instance with a nil error, which is no error to begin with)
TurnedIntoSuccess(c, i) ==
    /\ c.op = "TimeoutSaga" /\ c.calls[i].op = "GetSagaByID"
    /\ c.calls[i].err = ErrInstanceNotFound

\* C15: an error returned by a Store call, a TimeoutManager call or a
\* business/timeout handler inside SagaHandler or TimeoutSaga is the last
\* call made and is returned unchanged; the only calls that return nil
\* after a collaborator's error are the TimeoutSaga calls told
\* ErrInstanceNotFound, and a call that returns nil without one has seen no
\* error at all (the correlated path's absent instance among them).
C15_ErrorsReturnedUnchanged ==
    \A p \in Callers :
        LET c == caller[p] IN
        Finished(c) =>
            \A i \in DOMAIN c.calls :
                c.calls[i].err # Nil =>
                    /\ i = Len(c.calls)
                    /\ IF TurnedIntoSuccess(c, i)
                       THEN c.ret = Nil
                       ELSE c.ret = c.calls[i].err
\* DeleteSaga failed: its error is returned and ClearTimeout was not called
C15_Witness ==
    \E p \in Callers :
        LET c == caller[p] IN
        /\ Finished(c) /\ c.calls # <<>>
        /\ c.calls[Len(c.calls)].op = "DeleteSaga"
        /\ c.calls[Len(c.calls)].err = ErrOf("DeleteSaga")
        /\ c.ret = ErrOf("DeleteSaga") /\ "ClearTimeout" \notin OpsOf(c)
        /\ sagaStore[c.instance.ID] # NilInstance


\* C16: SagaHandler's correlated path and TimeoutSaga treat the reports of
\* an absent instance alike: whichever way GetSagaByID reports the absence
\* (ErrInstanceNotFound, or a nil instance with a nil error), the call that
\* was told returns nil, with nothing invoked and nothing written, and does
\* not fail.
C16_AbsenceTreatedAlike ==
    \A p \in Callers :
        LET c == caller[p] IN
        (Finished(c) /\ ReportedAbsent(c)) => (c.ret = Nil /\ Untouched(c))


\* C17: SagaHandler gives the lock back on every return path, and under
\* fair scheduling with terminating collaborator and handler calls every
\* SagaHandler call waiting for the lock (its message subscribed for: a Def
\* is registered) acquires it and returns; nobody waits forever.
C17_EveryDispatchReturns ==
    /\ [](\A p \in Callers : lock = p => InDispatch(caller[p]))
    /\ \A p \in Callers :
          (caller[p].pc = "sh_lock" /\ sagaDefs # <<>>)
              ~> (caller[p].op = "SagaHandler" /\ caller[p].pc = "done")
\* a call returned an error and the lock is free while the other caller
\* waits for it
C17_Witness ==
    \E p, q \in Callers :
        /\ SagaHandlerDone(caller[p]) /\ caller[p].ret # Nil
        /\ caller[q].pc = "sh_lock" /\ lock = NoCaller


\* the number of calls of an operation in a caller's log
CountOf(c, op) == Cardinality({i \in DOMAIN c.calls : c.calls[i].op = op})

\* C18: for a message with a non-empty SagaCorrelationID whose name is
\* indexed under several Defs, none of them started by it, SagaHandler uses
\* the first registered Def only: it calls GetSagaByID once, for that id,
\* invokes at most one instance, creates none, fetches none by type, and
\* returns while still at the first Def, whether the instance was found,
\* was not found or a call failed.
C18_CorrelatedUsesFirstDefOnly ==
    \A p \in Callers :
        LET c == caller[p] IN
        (/\ SagaHandlerDone(c) /\ c.message.SagaCorrelationID # NoID
         /\ Len(c.defs) >= 2 /\ \A i \in DOMAIN c.defs : ~StartsDef(c, i))
            => /\ c.di = 1 /\ c.created = 0
               /\ CountOf(c, "GetSagaByID") = 1
               /\ IsCall(c, 1, "GetSagaByID", c.message.SagaCorrelationID)
               /\ CountOf(c, "invoke") <= 1
               /\ CountOf(c, "GetSagasByType") = 0
               /\ \A i \in DOMAIN c.calls : c.calls[i].id = c.message.SagaCorrelationID
\* the instance found belongs to the second Def's saga type and was invoked
\* and reconciled at the first Def
C18_Witness ==
    \E p \in Callers :
        LET c == caller[p] IN
        /\ SagaHandlerDone(c) /\ c.message.SagaCorrelationID # NoID
        /\ c.defs = <<"T2", "T1">> /\ ~StartsDef(c, 1) /\ ~StartsDef(c, 2)
        /\ c.instance.sagaType = "T1"
        /\ CountOf(c, "invoke") = 1 /\ c.ret = Nil /\ c.di = 1


\* no call is in progress
Quiescent == \A p \in Callers : caller[p].pc \in {"idle", "done"}
\* the ids of the instances the Store holds
StoredIDs == {i \in Ids : sagaStore[i] # NilInstance}

C20_RegisteredMeansSubscribed ==
    /\ (registration.op # "none" /\ registration.ret = Nil) => Accepted(registration.name)
    /\ \A name \in alreadyRegistred : Accepted(name)

====
